---- MODULE Spec2Model ----
(***************************************************************************)
(* hrtf_mesh_grading (examples/hrtf_mesh_grading.cpp): the command-line    *)
(* driver that parses its options, validates them, fills in defaults,      *)
(* echoes them, reads a mesh, remeshes it and writes it.                   *)
(*                                                                         *)
(* One process run of main() is a record: the local variables of main      *)
(* under their source names, the position in main (pc), and what the run   *)
(* has done that is visible from outside (calls, out, exit).  The variable *)
(* run holds one such record per process; the two-process specifications   *)
(* put two runs side by side to compare them.                              *)
(***************************************************************************)
EXTENDS Integers, Sequences, FiniteSets, TLC

VARIABLES run

vars == <<run>>

(***************************************************************************)
(* float values.  A float is a number, a NaN, or the indeterminate value   *)
(* of a variable that was never written.  Numbers are counted in units of  *)
(* 2.5e-7, so that the constants of the program and the floats next to     *)
(* them are distinct integers.                                             *)
(***************************************************************************)
Num(v) == [kind |-> "num", v |-> v]

NaN == [kind |-> "nan", v |-> 0]

Indeterminate == [kind |-> "indeterminate", v |-> 0]

\* a < b, a > b and a == b of C++ on floats and doubles: false when either is NaN
FLt(a, b) == a.kind = "num" /\ b.kind = "num" /\ a.v < b.v

FGt(a, b) == a.kind = "num" /\ b.kind = "num" /\ a.v > b.v

FEq(a, b) == a.kind = "num" /\ b.kind = "num" /\ a.v = b.v

\* the double constant 1e-6 of lines 111 and 117
Eps == 4

\* the double constant 1.9 of lines 121 and 125
GammaLimit == 7600000

\* the constant 0.15 of lines 123 and 127, as the float it is stored as
GammaDefault == 600000

\* the initial value 2. of gamma_scaling_left and gamma_scaling_right
GammaUnset == 8000000

\* the iteration count 10U and the flag true of the remeshing call
Iterations == 10

UseProjection == TRUE

nullptr == "<nullptr>"

(***************************************************************************)
(* std::stof on the spellings the command lines below are made of: the     *)
(* float nearest to the decimal, in units of 2.5e-7.  The floats nearest   *)
(* to 0.000001 and to 1.9 lie below the doubles 1e-6 and 1.9 the program   *)
(* compares them with (9.99999997e-7 and 1.89999998), the float nearest to *)
(* 1.900001 lies above 1.9.  "nan" parses to a NaN; a spelling that is no  *)
(* number makes stof throw std::invalid_argument.                          *)
(***************************************************************************)
Decimals ==
    [s \in {"-1", "0", "0.0000005", "0.000001", "0.15", "0.5", "1.9",
            "1.900001", "7.5", "10"} |->
        CASE s = "-1"        -> 0 - 4000000
          [] s = "0"         -> 0
          [] s = "0.0000005" -> 2
          [] s = "0.000001"  -> 3
          [] s = "0.15"      -> 600000
          [] s = "0.5"       -> 2000000
          [] s = "1.9"       -> 7599999
          [] s = "1.900001"  -> 7600004
          [] s = "7.5"       -> 30000000
          [] s = "10"        -> 40000000]

stof_throws(s) == s \notin DOMAIN Decimals /\ s # "nan"

stof(s) == IF s = "nan" THEN NaN ELSE Num(Decimals[s])

(***************************************************************************)
(* The options of the getopt string "x:y:e:s:l:r:g:h:i:o:vi:bi:".  "?" is  *)
(* what getopt returns for an unknown option or a missing argument.        *)
(***************************************************************************)
Options == {"x", "y", "e", "s", "l", "r", "g", "h", "i", "o", "v", "b"}

Absent == "<absent>"

Flag == "<flag>"

\* main at its first statement (lines 40-49): min and max are declared
\* without an initializer, err starts at 0
InitRun ==
    [pc |-> "getopt",
     binary |-> FALSE,
     verbose |-> FALSE,
     input |-> nullptr,
     output |-> nullptr,
     min |-> Indeterminate,
     max |-> Indeterminate,
     err |-> Num(0),
     channel_left |-> Num(0),
     channel_right |-> Num(0),
     gamma_scaling_left |-> Num(GammaUnset),
     gamma_scaling_right |-> Num(GammaUnset),
     ear |-> nullptr,
     mesh |-> <<"empty">>,
     faces_before |-> <<"unset">>,
     \* the last argument each option was given on the command line
     argv |-> [c \in Options |-> Absent],
     \* the calls to the mesh library, in order
     calls |-> <<>>,
     \* what the file system answered to pmp::read and pmp::write
     read_result |-> "none",
     write_result |-> "none",
     \* standard output and standard error
     out |-> <<>>,
     cerr |-> <<>>,
     \* "running", "exit(0)", "exit(1)" or "abort"
     exit |-> "running"]

\* exit(code)
Exit(st, code) == [st EXCEPT !.pc = "exited", !.exit = code]

\* usage_and_exit (lines 11-36)
usage_and_exit(st) == Exit([st EXCEPT !.cerr = Append(@, <<"usage">>)], "exit(1)")

\* an exception nothing catches: std::terminate, which aborts
terminate(st) == [st EXCEPT !.pc = "exited", !.exit = "abort"]

\* x = std::stof(optarg) for the float variable named field
AssignStof(st, field, optarg) ==
    IF stof_throws(optarg) THEN terminate(st)
    ELSE [st EXCEPT ![field] = stof(optarg)]

\* one pass of the getopt loop (lines 53-108): getopt returned c with optarg
getopt_case(st, c, optarg) ==
    LET s == IF c \in Options THEN [st EXCEPT !.argv[c] = optarg] ELSE st
    IN  CASE c = "x" -> AssignStof(s, "min", optarg)
          [] c = "y" -> AssignStof(s, "max", optarg)
          [] c = "e" -> AssignStof(s, "err", optarg)
          [] c = "s" -> [s EXCEPT !.ear = optarg]
          [] c = "l" -> AssignStof(s, "channel_left", optarg)
          [] c = "r" -> AssignStof(s, "channel_right", optarg)
          [] c = "g" -> AssignStof(s, "gamma_scaling_left", optarg)
          [] c = "h" -> AssignStof(s, "gamma_scaling_right", optarg)
          [] c = "i" -> [s EXCEPT !.input = optarg]
          [] c = "o" -> [s EXCEPT !.output = optarg]
          [] c = "v" -> [s EXCEPT !.verbose = TRUE]
          [] c = "b" -> [s EXCEPT !.binary = TRUE]
          [] OTHER   -> usage_and_exit(s)

\* getopt returned -1: the loop ends
getopt_end(st) == [st EXCEPT !.pc = "check"]

\* reading a float variable: an indeterminate one yields whatever the
\* memory held, garbage, and keeps yielding it
ReadFloat(v, garbage) == IF v = Indeterminate THEN garbage ELSE v

\* the condition of line 111
InvalidInput(st) ==
    \/ FLt(st.min, Num(Eps))
    \/ FLt(st.max, Num(Eps))
    \/ st.ear = nullptr
    \/ st.input = nullptr
    \/ st.output = nullptr

\* check input (lines 110-114).  || evaluates left to right and stops at the
\* first true operand: max is read only when min < 1e-6 is false
check_input(st, garbage) ==
    LET s1 == [st EXCEPT !.min = ReadFloat(@, garbage.min)]
        s2 == IF FLt(s1.min, Num(Eps)) THEN s1
              ELSE [s1 EXCEPT !.max = ReadFloat(@, garbage.max)]
    IN  IF InvalidInput(s2) THEN usage_and_exit(s2)
        ELSE [s2 EXCEPT !.pc = "defaults"]

\* the default of one gamma scaling factor (lines 121-128)
DefaultGamma(gamma) ==
    IF FGt(gamma, Num(GammaLimit)) THEN Num(GammaDefault) ELSE gamma

\* DefaultErr with the test "err <= 0" in place of "err < 1e-6"
DefaultErr_nonpositive(err, min) ==
    IF err.kind = "num" /\ err.v <= 0 THEN min ELSE err

\* the default of err (lines 117-120)
DefaultErr(err, min) == IF FLt(err, Num(Eps)) THEN min ELSE err

\* default_parameters with line 125 testing gamma_scaling_left
default_parameters_crossed(st) ==
    [st EXCEPT !.err = DefaultErr(@, st.min),
               !.gamma_scaling_left = DefaultGamma(@),
               !.gamma_scaling_right =
                   IF FGt(st.gamma_scaling_left, Num(GammaLimit))
                   THEN Num(GammaDefault) ELSE @,
               !.pc = "echo_input"]

\* default parameters (lines 116-128)
default_parameters(st) ==
    [st EXCEPT !.err = DefaultErr(@, st.min),
               !.gamma_scaling_left = DefaultGamma(@),
               !.gamma_scaling_right = DefaultGamma(@),
               !.pc = "echo_input"]

\* the lines the verbose echo prints (lines 132-143)
EchoLines(st) ==
    <<  <<"input", st.input>>, <<"output", st.output>>, <<"side", st.ear>>,
        <<"min. edge length", st.min>>, <<"max. edge length", st.max>>,
        <<"max. error", st.err>> >>
    \o (IF FEq(st.channel_left, Num(0)) /\ FEq(st.channel_right, Num(0))
        THEN << <<"gamma scaling left/right", st.gamma_scaling_left,
                  st.gamma_scaling_right>> >>
        ELSE <<>>)

\* echo input (lines 130-145)
echo_input(st) ==
    [st EXCEPT !.out = IF st.verbose THEN @ \o EchoLines(st) ELSE @,
               !.pc = "load"]

\* what pmp::read can answer: a mesh, or a pmp::IOException
IOException == "IOException"

Meshes == {"head", "torso"}

\* load_input_mesh without the exit(1) of line 156: the catch block falls
\* through to the remeshing
load_input_mesh_fallthrough(st, result) ==
    LET s == [st EXCEPT !.calls = Append(@, <<"read", st.input>>),
                        !.read_result = result]
    IN  IF result = IOException
        THEN [s EXCEPT !.cerr = Append(@, <<"Failed to read mesh">>),
                       !.pc = "remesh"]
        ELSE [s EXCEPT !.mesh = <<result>>,
                       !.faces_before = <<"n_faces", <<result>>>>,
                       !.pc = "remesh"]

\* load input mesh (lines 147-159): result is what pmp::read answered
load_input_mesh(st, result) ==
    LET s == [st EXCEPT !.calls = Append(@, <<"read", st.input>>),
                        !.read_result = result]
    IN  IF result = IOException
        THEN Exit([s EXCEPT !.cerr = Append(@, <<"Failed to read mesh">>)],
                  "exit(1)")
        ELSE [s EXCEPT !.mesh = <<result>>,
                       !.faces_before = <<"n_faces", <<result>>>>,
                       !.pc = "remesh"]

\* the mesh pmp::uniform_remeshing leaves in place of its first argument:
\* a value of the mesh and of the three parameters it is called with
uniform_remeshing(mesh, edge_length, iterations, use_projection) ==
    <<"uniform_remeshing", mesh, edge_length, iterations, use_projection>>

\* RemeshArgs with max passed as the edge length
RemeshArgs_max(st) == <<st.mesh, st.max, Iterations, UseProjection>>

\* the arguments main passes to pmp::uniform_remeshing (lines 176-180)
RemeshArgs(st) == <<st.mesh, st.min, Iterations, UseProjection>>

\* remeshing (lines 163-180)
remeshing(st) ==
    LET a == RemeshArgs(st)
    IN  [st EXCEPT !.calls = Append(@, <<"remesh">> \o a),
                   !.mesh = uniform_remeshing(a[1], a[2], a[3], a[4]),
                   !.pc = "echo_stats"]

\* echo remeshing stats (lines 182-187)
echo_stats(st) ==
    [st EXCEPT !.out = IF st.verbose
                       THEN @ \o << <<"Faces before remeshing", st.faces_before>>,
                                    <<"Faces after remeshing", <<"n_faces", st.mesh>>>> >>
                       ELSE @,
               !.pc = "write"]

\* write_output_mesh without the exit(1) of line 199: the catch block falls
\* through to exit(0)
write_output_mesh_fallthrough(st, result) ==
    LET s == [st EXCEPT !.calls = Append(@, <<"write", st.mesh, st.output, st.binary>>),
                        !.write_result = result]
    IN  IF result = IOException
        THEN Exit([s EXCEPT !.cerr = Append(@, <<"Failed to write mesh">>)],
                  "exit(0)")
        ELSE Exit(s, "exit(0)")

\* write output mesh (lines 189-202): result is what pmp::write answered
write_output_mesh(st, result) ==
    LET s == [st EXCEPT !.calls = Append(@, <<"write", st.mesh, st.output, st.binary>>),
                        !.write_result = result]
    IN  IF result = IOException
        THEN Exit([s EXCEPT !.cerr = Append(@, <<"Failed to write mesh">>)],
                  "exit(1)")
        ELSE Exit(s, "exit(0)")

(***************************************************************************)
(* The environment: command lines, memory garbage, the file system.        *)
(***************************************************************************)
\* what an uninitialized float may hold: a value below 1e-6, one above, a NaN
Garbage == {Num(0), Num(6000000), NaN}

ReadResults == Meshes \cup {IOException}

WriteResults == {"ok", IOException}

\* the arguments the command lines of the one-process specification give
Cmd ==
    [c \in Options \cup {"?"} |->
        CASE c = "x" -> {"0", "0.5", "10", "nan", "abc"}
          [] c = "y" -> {"-1", "0.5"}
          [] c = "e" -> {"0.0000005", "0.000001", "10"}
          [] c = "s" -> {"left", "right", "front"}
          [] c = "l" -> {"7.5"}
          [] c = "r" -> {"7.5"}
          [] c = "g" -> {"1.9", "1.900001"}
          [] c = "h" -> {"1.9", "1.900001"}
          [] c = "i" -> {"head.ply"}
          [] c = "o" -> {"head_left.ply"}
          [] OTHER   -> {Flag}]

Runs == DOMAIN run

At(label) == {r \in Runs : run[r].pc = label}

\* processes that open the same path at the same step find the same file:
\* the file system answers them alike
SameFile(res, path) ==
    \A r, q \in DOMAIN res : run[r][path] = run[q][path] => res[r] = res[q]

(***************************************************************************)
(* The steps of main.  Every process that stands at the step takes it.     *)
(* In Getopt the processes are given the same option; those in differ may  *)
(* be given with different arguments, or to some processes only.           *)
(***************************************************************************)
Getopt(cmd, differ) ==
    \E c \in DOMAIN cmd :
        \E a \in [At("getopt") -> cmd[c] \cup {Absent}] :
            /\ At("getopt") # {}
            /\ \E r \in At("getopt") : a[r] # Absent
            /\ c \notin differ =>
                  \A r, q \in At("getopt") : a[r] = a[q]
            /\ run' = [r \in Runs |->
                         IF r \in At("getopt") /\ a[r] # Absent
                         THEN getopt_case(run[r], c, a[r])
                         ELSE run[r]]

GetoptEnd ==
    /\ At("getopt") # {}
    /\ run' = [r \in Runs |->
                 IF r \in At("getopt") THEN getopt_end(run[r]) ELSE run[r]]

CheckInput ==
    /\ At("check") # {}
    /\ \E g \in [At("check") -> [min : Garbage, max : Garbage]] :
          run' = [r \in Runs |->
                    IF r \in At("check") THEN check_input(run[r], g[r])
                    ELSE run[r]]

DefaultParameters ==
    /\ At("defaults") # {}
    /\ run' = [r \in Runs |->
                 IF r \in At("defaults") THEN default_parameters(run[r])
                 ELSE run[r]]

EchoInput ==
    /\ At("echo_input") # {}
    /\ run' = [r \in Runs |->
                 IF r \in At("echo_input") THEN echo_input(run[r]) ELSE run[r]]

LoadInputMesh ==
    /\ At("load") # {}
    /\ \E res \in [At("load") -> ReadResults] :
          /\ SameFile(res, "input")
          /\ run' = [r \in Runs |->
                       IF r \in At("load") THEN load_input_mesh(run[r], res[r])
                       ELSE run[r]]

Remeshing ==
    /\ At("remesh") # {}
    /\ run' = [r \in Runs |->
                 IF r \in At("remesh") THEN remeshing(run[r]) ELSE run[r]]

EchoStats ==
    /\ At("echo_stats") # {}
    /\ run' = [r \in Runs |->
                 IF r \in At("echo_stats") THEN echo_stats(run[r]) ELSE run[r]]

WriteOutputMesh ==
    /\ At("write") # {}
    /\ \E res \in [At("write") -> WriteResults] :
          /\ SameFile(res, "output")
          /\ run' = [r \in Runs |->
                       IF r \in At("write") THEN write_output_mesh(run[r], res[r])
                       ELSE run[r]]

\* one process
Init == run = [r \in {1} |-> InitRun]

Next ==
    \/ Getopt(Cmd, {})
    \/ GetoptEnd
    \/ CheckInput
    \/ DefaultParameters
    \/ EchoInput
    \/ LoadInputMesh
    \/ Remeshing
    \/ EchoStats
    \/ WriteOutputMesh

Spec == Init /\ [][Next]_vars

(***************************************************************************)
(* Two processes side by side, to compare two runs of the program.  Both   *)
(* are given the same options with the same arguments, except the options  *)
(* of the set differ (Getopt), which each may be given with an argument of *)
(* its own or not at all.  Each has its own memory garbage.                *)
(***************************************************************************)
InitPair == run = [r \in {1, 2} |-> InitRun]

\* two runs that may differ in -g and -h
CmdGamma ==
    [c \in Options \cup {"?"} |->
        CASE c = "x" -> {"0.5"}
          [] c = "y" -> {"10"}
          [] c = "s" -> {"left"}
          [] c = "l" -> {"7.5"}
          [] c = "g" -> {"0.15", "1.9"}
          [] c = "h" -> {"0.15", "1.9"}
          [] c = "i" -> {"head.ply"}
          [] c = "o" -> {"head_left.ply"}
          [] c \in {"v", "?"} -> {Flag}
          [] OTHER   -> {}]

NextGamma ==
    \/ Getopt(CmdGamma, {"g", "h"})
    \/ GetoptEnd
    \/ CheckInput
    \/ DefaultParameters
    \/ EchoInput
    \/ LoadInputMesh
    \/ Remeshing
    \/ EchoStats
    \/ WriteOutputMesh

SpecGamma == InitPair /\ [][NextGamma]_vars

\* two runs that may differ in everything but -x, -i, -o
CmdPair ==
    [c \in Options \cup {"?"} |->
        CASE c = "x" -> {"0.5"}
          [] c = "y" -> {"10"}
          [] c = "e" -> {"10"}
          [] c = "s" -> {"left", "right"}
          [] c = "l" -> {"7.5"}
          [] c = "g" -> {"1.9"}
          [] c = "i" -> {"head.ply"}
          [] c = "o" -> {"head_left.ply"}
          [] c = "?" -> {Flag}
          [] OTHER   -> {}]

NextPair ==
    \/ Getopt(CmdPair, {"y", "e", "s", "l", "g"})
    \/ GetoptEnd
    \/ CheckInput
    \/ DefaultParameters
    \/ EchoInput
    \/ LoadInputMesh
    \/ Remeshing
    \/ EchoStats
    \/ WriteOutputMesh

SpecPair == InitPair /\ [][NextPair]_vars

(***************************************************************************)
(* The properties.                                                         *)
(***************************************************************************)
Called(st, name) == \E i \in 1..Len(st.calls) : st.calls[i][1] = name

\* the run has passed the defaults of lines 116-128
Defaulted(st) ==
    \/ st.pc \in {"echo_input", "load", "remesh", "echo_stats", "write"}
    \/ st.pc = "exited" /\ st.calls # <<>>

NonPositive(f) == f.kind = "num" /\ f.v <= 0

Positive(f) == f.kind = "num" /\ f.v > 0

\* C1: a run whose minimum or maximum edge length is not positive, or that
\* is given no side, no input path or no output path, exits with code 1 and
\* calls neither the reader, nor the remesher, nor the writer.
C1_RejectedBeforeIO ==
    \A r \in Runs :
        LET st == run[r]
        IN  (/\ st.pc = "exited"
             /\ \/ NonPositive(st.min)
                \/ NonPositive(st.max)
                \/ st.ear = nullptr
                \/ st.input = nullptr
                \/ st.output = nullptr)
            => st.exit = "exit(1)" /\ st.calls = <<>>

\* What holds of the runs of C1: none calls the reader, the remesher or the
\* writer, and none exits with code 0.
C1_NoIO ==
    \A r \in Runs :
        LET st == run[r]
        IN  (/\ st.pc # "getopt"
             /\ \/ NonPositive(st.min)
                \/ NonPositive(st.max)
                \/ st.ear = nullptr
                \/ st.input = nullptr
                \/ st.output = nullptr)
            => st.exit # "exit(0)" /\ st.calls = <<>>

\* C2: a run exits with code 0 exactly when the validation passes, the read
\* succeeds and the write succeeds; an I/O error of the reader or of the
\* writer ends the run with code 1.
C2_ExitCodes ==
    \A r \in Runs :
        LET st == run[r]
        IN  st.pc = "exited" =>
              /\ st.exit = "exit(0)" <=>
                    (/\ ~InvalidInput(st)
                     /\ st.read_result \in Meshes
                     /\ st.write_result = "ok")
              /\ (st.read_result = IOException \/ st.write_result = IOException)
                    => st.exit = "exit(1)"

C2_Witness ==
    \E r \in Runs :
        /\ run[r].exit = "exit(0)"
        /\ run[r].read_result \in Meshes
        /\ run[r].write_result = "ok"

\* C3: when the remesher is called in a run given numbers for -x and -y,
\* min > 0, max >= min and err > 0.
C3_SizingInvariant ==
    \A r \in Runs :
        LET st == run[r]
        IN  (/\ Called(st, "remesh")
             /\ st.argv["x"] # Absent /\ st.argv["y"] # Absent
             /\ st.min.kind = "num" /\ st.max.kind = "num")
            => /\ Positive(st.min)
               /\ st.max.v >= st.min.v
               /\ Positive(st.err)

\* what C4 says of one side: optarg is the argument of -g or -h, gamma the
\* scaling factor after the defaults
GammaAsClaimed(optarg, gamma) ==
    IF optarg = Absent \/ FGt(stof(optarg), Num(GammaLimit))
    THEN gamma = Num(GammaDefault)
    ELSE gamma = stof(optarg)

\* C4: after the defaults each gamma scaling factor is 0.15 when its option
\* was absent or given above 1.9, and the given value when that is at most
\* 1.9, whatever the other side was given.
C4_GammaDefault ==
    \A r \in Runs :
        LET st == run[r]
        IN  Defaulted(st) =>
              /\ GammaAsClaimed(st.argv["g"], st.gamma_scaling_left)
              /\ GammaAsClaimed(st.argv["h"], st.gamma_scaling_right)

C4_Witness ==
    \E r \in Runs :
        /\ Defaulted(run[r])
        /\ run[r].argv["g"] = "1.900001"
        /\ run[r].argv["h"] = "1.9"
        /\ run[r].gamma_scaling_left = Num(GammaDefault)
        /\ run[r].gamma_scaling_right = stof("1.9")

\* C5 as claimed: after the defaults err is min when -e was not given, and
\* the given value whenever -e was given a positive value.
C5_ErrAsClaimed ==
    \A r \in Runs :
        LET st == run[r]
        IN  Defaulted(st) =>
              /\ st.argv["e"] = Absent => st.err = st.min
              /\ (st.argv["e"] # Absent /\ Positive(stof(st.argv["e"])))
                    => st.err = stof(st.argv["e"])

\* C5 as amended: after the defaults err is min when -e was not given or
\* was given a value whose float is below 1e-6, and the given value when
\* that float is not below 1e-6.
C5_ErrDefault ==
    \A r \in Runs :
        LET st == run[r]
        IN  Defaulted(st) =>
              IF st.argv["e"] = Absent \/ FLt(stof(st.argv["e"]), Num(Eps))
              THEN st.err = st.min
              ELSE st.err = stof(st.argv["e"])

C5_Witness ==
    \E r \in Runs :
        /\ Defaulted(run[r])
        /\ run[r].argv["e"] = "0.0000005"
        /\ run[r].err = run[r].min
        /\ run[r].err # stof("0.0000005")

\* C6: a run that was never given -x or never given -y calls neither the
\* reader, nor the remesher, nor the writer, and does not exit with code 0.
C6_NoIOWithoutLengths ==
    \A r \in Runs :
        LET st == run[r]
        IN  (st.argv["x"] = Absent \/ st.argv["y"] = Absent)
            => st.calls = <<>> /\ st.exit # "exit(0)"

\* C7: a run that reaches the reader or the remesher has the side 'left' or
\* 'right'; a run given another side never loads a mesh.
C7_SideLeftOrRight ==
    \A r \in Runs :
        run[r].calls # <<>> => run[r].ear \in {"left", "right"}

\* the mesh the run handed to pmp::write
Written(st) ==
    IF Called(st, "write") THEN <<st.calls[Len(st.calls)][2]>> ELSE <<>>

\* C8: two runs given a non-zero -l that differ only in the arguments of -g
\* and -h echo the same parameters, write the same mesh and exit alike.
C8_GammaUnused ==
    LET a == run[1]
        b == run[2]
    IN  (/\ Runs = {1, 2}
         /\ a.pc = "exited" /\ b.pc = "exited"
         /\ \A c \in Options \ {"g", "h"} : a.argv[c] = b.argv[c]
         /\ \A c \in {"g", "h"} : a.argv[c] = Absent <=> b.argv[c] = Absent
         /\ \E c \in {"g", "h"} : a.argv[c] # b.argv[c]
         /\ a.argv["l"] # Absent /\ ~FEq(a.channel_left, Num(0)))
        => /\ a.out = b.out
           /\ Written(a) = Written(b)
           /\ a.exit = b.exit

\* What holds of the comparison of C8 once both runs are given -x and -y:
\* then no variable is read before it is written.
C8_GammaUnusedGivenLengths ==
    LET a == run[1]
        b == run[2]
    IN  (/\ Runs = {1, 2}
         /\ a.pc = "exited" /\ b.pc = "exited"
         /\ \A c \in Options \ {"g", "h"} : a.argv[c] = b.argv[c]
         /\ \A c \in {"g", "h"} : a.argv[c] = Absent <=> b.argv[c] = Absent
         /\ a.argv["x"] # Absent /\ a.argv["y"] # Absent
         /\ a.argv["l"] # Absent /\ ~FEq(a.channel_left, Num(0)))
        => /\ a.out = b.out
           /\ Written(a) = Written(b)
           /\ a.exit = b.exit

Kinds(calls) == [i \in 1..Len(calls) |-> calls[i][1]]

\* C9: the calls of a run are read, remesh, write in this order, each at
\* most once; the remesher is called only after a read that succeeded, with
\* 10 iterations and the flag true; the writer only after the remesher.
C9_CallOrder ==
    \A r \in Runs :
        LET st == run[r]
        IN  /\ Kinds(st.calls) \in
                 {<<>>, <<"read">>, <<"read", "remesh">>,
                  <<"read", "remesh", "write">>}
            /\ Called(st, "remesh") =>
                 /\ st.read_result \in Meshes
                 /\ st.calls[2][4] = 10
                 /\ st.calls[2][5] = TRUE
            /\ st.read_result = IOException => ~Called(st, "write")
            /\ st.calls # <<>> => ~InvalidInput(st)

C9_Witness ==
    \E r \in Runs : Kinds(run[r].calls) = <<"read", "remesh", "write">>

====
